---- MODULE Spec2Model ----
(***************************************************************************)
(* narrow: an HTTP reverse proxy that records per-endpoint latency         *)
(* histograms and a request log, filters by a source-IP blacklist, and     *)
(* prints and clears the statistics on a fixed period.                     *)
(*                                                                         *)
(* Modelled from apps/core/src: net/proxy.rs (proxy), statistics/          *)
(* histogram.rs (Histogram, add_histogram_row, print_histograms),          *)
(* state/mod.rs, state/log.rs and main.rs (the reporter task).             *)
(***************************************************************************)
EXTENDS Integers, Sequences, FiniteSets, TLC

\* ------------------------------------------------------------------ bounds

\* Number of inbound requests (one tokio task each) the model serves.
NumTasks == 2

\* Number of Histogram::add calls in the stand-alone histogram specification.
MaxAdds == 3

Tasks == 1..NumTasks

\* ------------------------------------------------------- configuration

target_host == "localhost"

target_port == 3000

GoodIp == "10.0.0.1"

BadIp == "10.0.0.66"

\* ------------------------------------------------------------- inputs

None == << >>

Some(v) == << v >>

\* Peer socket addresses of the inbound connections.
Peers == { [ip |-> GoodIp, port |-> 50000], [ip |-> BadIp, port |-> 50001] }

NoPeer == [ip |-> "", port |-> 0]

\* SocketAddr::ip().
socket_ip(addr) == addr.ip

\* Inbound requests: method, origin-form URI (path and optional query),
\* headers and body.
Requests ==
    { [method |-> "GET", uri |-> [path |-> "/foo", query |-> Some("x=1")],
       headers |-> {<<"host", "example.org">>}, body |-> ""],
      [method |-> "POST", uri |-> [path |-> "/bar", query |-> None],
       headers |-> {<<"host", "example.org">>, <<"x-forwarded-for", "1.2.3.4">>},
       body |-> "payload"] }

NoRequest == [method |-> "", uri |-> [path |-> "", query |-> None],
              headers |-> {}, body |-> ""]

\* What the upstream may answer and the time (std::time::Duration, in
\* nanoseconds) the exchange took.
Exchanges ==
    { [status |-> 200, elapsed |-> 15000000],
      [status |-> 500, elapsed |-> 1000500000] }

\* Durations of the stand-alone histogram specification: every bucket
\* boundary, its neighbours, and values with a sub-millisecond remainder.
AddDurations ==
    {0, 999999, 5000000, 10000000, 10999999, 11000000, 50000000, 100000000,
     101000000, 150000000, 250000000, 251000000, 300000000, 500000000,
     501000000, 600000000, 1000000000, 1000999999, 1001000000, 1200000000}

AddTimes == {1, 2}

\* ---------------------------------------------------------- Duration

\* Duration::as_millis: whole milliseconds, the remainder is dropped.
as_millis(d) == d \div 1000000

\* Duration::as_micros: whole microseconds, the remainder is dropped.
as_micros(d) == d \div 1000

\* ---------------------------------------------------------- Histogram

BucketNames == {"count_0_10", "count_11_100", "count_101_250",
                "count_251_500", "count_501_1000", "count_1000_plus"}

\* #[derive(Default)] for Histogram.
HistogramDefault ==
    [count_0_10 |-> 0, count_11_100 |-> 0, count_101_250 |-> 0,
     count_251_500 |-> 0, count_501_1000 |-> 0, count_1000_plus |-> 0,
     total_requests |-> 0, last_request_time |-> None]

\* The match of Histogram::add with the upper bounds taken as exclusive.
BucketExclusive(ms) ==
    IF ms < 10 THEN "count_0_10"
    ELSE IF ms < 100 THEN "count_11_100"
    ELSE IF ms < 250 THEN "count_101_250"
    ELSE IF ms < 500 THEN "count_251_500"
    ELSE IF ms < 1000 THEN "count_501_1000"
    ELSE "count_1000_plus"

\* The match of Histogram::add: the bucket of a duration of ms milliseconds.
Bucket(ms) ==
    IF ms >= 0 /\ ms <= 10 THEN "count_0_10"
    ELSE IF ms >= 11 /\ ms <= 100 THEN "count_11_100"
    ELSE IF ms >= 101 /\ ms <= 250 THEN "count_101_250"
    ELSE IF ms >= 251 /\ ms <= 500 THEN "count_251_500"
    ELSE IF ms >= 501 /\ ms <= 1000 THEN "count_501_1000"
    ELSE "count_1000_plus"

\* Histogram::add that counts the request in the bucket but not in the total.
addNoTotal(h, duration, timestamp) ==
    LET b == Bucket(as_millis(duration))
    IN  [h EXCEPT ![b] = @ + 1, !.last_request_time = Some(timestamp)]

\* Histogram::add that keeps the later of the stored and the new timestamp.
addKeepLatest(h, duration, timestamp) ==
    LET b == Bucket(as_millis(duration))
        last == IF h.last_request_time # None
                   /\ h.last_request_time[1] > timestamp
                THEN h.last_request_time ELSE Some(timestamp)
    IN  [h EXCEPT ![b] = @ + 1,
                  !.total_requests = @ + 1,
                  !.last_request_time = last]

\* Histogram::add that counts the request and does not note its time.
addNoTime(h, duration, timestamp) ==
    LET b == Bucket(as_millis(duration))
    IN  [h EXCEPT ![b] = @ + 1, !.total_requests = @ + 1]

\* Histogram::add.
add(h, duration, timestamp) ==
    LET b == Bucket(as_millis(duration))
    IN  [h EXCEPT ![b] = @ + 1,
                  !.total_requests = @ + 1,
                  !.last_request_time = Some(timestamp)]

\* ------------------------------------------------------ HashMap helpers

\* HashMap::new().
EmptyMap == [k \in {} |-> HistogramDefault]

\* entry(key) that always installs a fresh Histogram, dropping a stored one.
entry_insert_default(m, key) ==
    [k \in DOMAIN m \cup {key} |-> IF k = key THEN HistogramDefault ELSE m[k]]

\* HashMap::entry(key).or_default(): the map with key present.
entry_or_default(m, key) ==
    [k \in DOMAIN m \cup {key} |->
        IF k \in DOMAIN m THEN m[k] ELSE HistogramDefault]

\* histograms.entry(key).or_default().add(duration, timestamp).
record_entry(m, key, duration, timestamp) ==
    LET m1 == entry_or_default(m, key)
    IN  [m1 EXCEPT ![key] = add(@, duration, timestamp)]

\* A fresh map taken in place of the copy.
clone_fresh(m) == EmptyMap

\* The clone that the reporter takes of the locked map.
clone(m) == m

\* HashMap::clear() that keeps the aggregate entry.
clear_keep_overall(m) == [k \in DOMAIN m \cap {"Overall"} |-> HistogramDefault]

\* HashMap::clear().
clear(m) == EmptyMap

\* ------------------------------------------------------------- Uri

\* Uri::path_and_query().map(|x| x.as_str()).unwrap_or("").
path_and_query(u) ==
    IF u.query = None THEN u.path ELSE u.path \o "?" \o u.query[1]

\* Uri::to_string() of an origin-form URI.
uri_to_string(u) == path_and_query(u)

\* The histogram key taken from the whole URI instead of its path.
uri_full_key(u) == uri_to_string(u)

\* Uri::path().to_string(): the histogram key of a request.
uri_path(u) == u.path

\* The outbound request built from the path alone, the query left out.
proxied_req_path_only(r) ==
    [method |-> r.method,
     uri |-> "http://" \o target_host \o ":" \o ToString(target_port)
                \o r.uri.path,
     headers |-> r.headers,
     body |-> r.body]

\* The outbound request built from the inbound one.
proxied_req(r) ==
    [method |-> r.method,
     uri |-> "http://" \o target_host \o ":" \o ToString(target_port)
                \o path_and_query(r.uri),
     headers |-> r.headers,
     body |-> r.body]

NoOutbound == [method |-> "", uri |-> "", headers |-> {}, body |-> ""]

\* ------------------------------------------------------------- state

VARIABLES
    histograms,   \* HistogramMap: the locked HashMap<String, Histogram>
    loglist,      \* LogList: the locked Vec<Log>
    blacklist,    \* Arc<HashSet<IpAddr>>
    histLock,     \* holder of the histogram mutex: 0 (free) or a task
    logLock,      \* holder of the log mutex: 0 (free) or a task
    clock,        \* Utc::now(), advancing with every arrival
    pc,           \* position of each request task in proxy()
    requester_ip, \* conn.remote_addr() of the connection a task serves
    req,          \* the inbound request of each task
    timestamp,    \* proxy's timestamp local
    outbound,     \* proxy's proxied_req local
    sends,        \* history: number of requests each task sent upstream
    resp,         \* status of the upstream response a task received
    duration,     \* proxy's duration local (start.elapsed())
    result,       \* what proxy() returned
    rpc,          \* position of the reporter task in its loop
    snapshot,     \* the reporter's local clone of the map
    report,       \* the table print_histograms returned
    applied,      \* history: observations recorded in the map since its
                  \* last clear
    snapApplied,  \* history: value of applied when the snapshot was taken
    recorded,     \* history: number of observations recorded so far
    reported,     \* history: sum of the Overall totals of the reports
    quiet,        \* history: a tick completed and nothing was recorded since
    dirty,        \* history: something was recorded since the tick started
    completion,   \* history: timestamps of the requests whose response
                  \* arrived, in that order, until their log entry is cleared
    hist,         \* stand-alone histogram specification: the Histogram
    prevHist,     \* ... its value before the last add
    lastAdd,      \* ... the arguments of the last add
    nAdds,        \* ... the number of adds so far
    now,          \* timer specification: seconds since the process started
    tpc,          \* ... position of the reporter task (main.rs:250-265)
    deadline,     \* ... instant for which interval's next tick is scheduled
    created,      \* ... history: instant at which time::interval was called
    ticks,        \* ... history: number of ticks that have fired
    tickAt,       \* ... history: instant at which the latest tick fired
    prevTickAt,   \* ... history: instant at which the tick before it fired
    clears,       \* ... history: number of ticks whose log clear is done
    renderMap,    \* renderer specification: the map passed to print_histograms
    rendered,     \* ... the rows of the table it built
    renderCalled  \* ... history: print_histograms has been called

taskVars == <<pc, requester_ip, req, timestamp, outbound, sends, resp, duration, result>>

storeVars == <<histograms, loglist, histLock, logLock>>

reporterVars == <<rpc, snapshot, report>>

historyVars == <<applied, snapApplied, recorded, reported, quiet, dirty,
                 completion>>

histVars == <<hist, prevHist, lastAdd, nAdds>>

timerVars == <<now, tpc, deadline, created, ticks, tickAt, prevTickAt, clears>>

renderVars == <<renderMap, rendered, renderCalled>>

vars == <<histograms, loglist, blacklist, histLock, logLock, completion, clock, pc, requester_ip, req,
          timestamp, outbound, sends, resp, duration, result, rpc, snapshot, report, applied,
          snapApplied, recorded, reported, quiet, dirty, hist, prevHist,
          lastAdd, nAdds, now, tpc, deadline, created, ticks, tickAt,
          prevTickAt, clears, renderMap, rendered, renderCalled>>

\* ------------------------------------------------------------- Log

\* The Log entry that proxy() pushes for task t.
LogOf(t) ==
    [timestamp |-> timestamp[t],
     req_method |-> req[t].method,
     req_uri |-> uri_to_string(req[t].uri),
     requester_ip |-> socket_ip(requester_ip[t]),
     micros |-> as_micros(duration[t])]

\* ------------------------------------------------------------- results

\* Ok(Response::builder().status(FORBIDDEN).body("Access denied")).
Forbidden == [kind |-> "Ok", status |-> 403, body |-> "Access denied"]

\* Ok(resp): the upstream response handed back unchanged.
Upstream(status) == [kind |-> "Ok", status |-> status, body |-> "upstream"]

\* Err(hyper::Error) propagated by the ? operator.
TransportError == [kind |-> "Err", status |-> 0, body |-> ""]

NoResult == [kind |-> "", status |-> 0, body |-> ""]

\* ------------------------------------------------------------- rendering

\* DateTime::<Local>::from(t).format("%Y-%m-%d %H:%M:%S %Z").to_string().
format_local(t) == "T" \o ToString(t)

\* The row add_histogram_row appends: every cell is a string.
histogram_row(endpoint, h) ==
    [endpoint |-> endpoint,
     count_0_10 |-> ToString(h.count_0_10),
     count_11_100 |-> ToString(h.count_11_100),
     count_101_250 |-> ToString(h.count_101_250),
     count_251_500 |-> ToString(h.count_251_500),
     count_501_1000 |-> ToString(h.count_501_1000),
     count_1000_plus |-> ToString(h.count_1000_plus),
     total_requests |-> ToString(h.total_requests),
     last_request |-> IF h.last_request_time = None THEN "N/A"
                      ELSE format_local(h.last_request_time[1])]

\* The orders in which HashMap::iter() may visit the keys of m.
IterOrders(m) ==
    { s \in [1..Cardinality(DOMAIN m) -> DOMAIN m] :
        \A i, j \in DOMAIN s : s[i] = s[j] => i = j }

\* The renderer without the default row: only the rows of the map.
print_histograms_stored(m, iter) ==
    LET first == IF "Overall" \in DOMAIN m
                 THEN << histogram_row("Overall", m["Overall"]) >>
                 ELSE << >>
        others == SelectSeq(iter, LAMBDA e : e # "Overall")
    IN  first \o [i \in 1..Len(others) |->
                     histogram_row(others[i], m[others[i]])]

\* The data rows of the table print_histograms builds, iter being the order
\* in which the map is iterated.
print_histograms(m, iter) ==
    IF DOMAIN m = {} \/ (Cardinality(DOMAIN m) = 1 /\ "Overall" \in DOMAIN m)
    THEN << histogram_row("Overall", HistogramDefault) >>
    ELSE LET first == IF "Overall" \in DOMAIN m
                      THEN << histogram_row("Overall", m["Overall"]) >>
                      ELSE << >>
             others == SelectSeq(iter, LAMBDA e : e # "Overall")
         IN  first \o [i \in 1..Len(others) |->
                          histogram_row(others[i], m[others[i]])]

\* The number a printed cell reads as.
ParseCount(cell) == CHOOSE n \in 0..(NumTasks + MaxAdds) : ToString(n) = cell

RECURSIVE OverallTotal(_)
\* Sum of the Total column over the rows labelled Overall.
OverallTotal(rows) ==
    IF rows = << >> THEN 0
    ELSE (IF Head(rows).endpoint = "Overall"
          THEN ParseCount(Head(rows).total_requests) ELSE 0)
         + OverallTotal(Tail(rows))

\* ------------------------------------------------------------- Init

Init ==
    /\ histograms = EmptyMap
    /\ loglist = << >>
    /\ blacklist = {BadIp}
    /\ histLock = 0
    /\ logLock = 0
    /\ completion = << >>
    /\ clock = 1
    /\ pc = [t \in Tasks |-> "idle"]
    /\ requester_ip = [t \in Tasks |-> NoPeer]
    /\ req = [t \in Tasks |-> NoRequest]
    /\ timestamp = [t \in Tasks |-> 0]
    /\ outbound = [t \in Tasks |-> NoOutbound]
    /\ sends = [t \in Tasks |-> 0]
    /\ resp = [t \in Tasks |-> 0]
    /\ duration = [t \in Tasks |-> 0]
    /\ result = [t \in Tasks |-> NoResult]
    /\ rpc = "sleep"
    /\ snapshot = EmptyMap
    /\ report = << >>
    /\ applied = {}
    /\ snapApplied = {}
    /\ recorded = 0
    /\ reported = 0
    /\ quiet = FALSE
    /\ dirty = FALSE
    /\ hist = HistogramDefault
    /\ prevHist = HistogramDefault
    /\ lastAdd = [duration |-> 0, timestamp |-> 0]
    /\ nAdds = 0
    /\ now = 0
    /\ tpc = "sleep"
    /\ deadline = 0
    /\ created = 0
    /\ ticks = 0
    /\ tickAt = 0
    /\ prevTickAt = 0
    /\ clears = 0
    /\ renderMap = EmptyMap
    /\ rendered = << >>
    /\ renderCalled = FALSE

\* ------------------------------------------------------------- proxy()

\* The blacklist check with the test dropped.
is_blocked_never(ip) == FALSE

\* blacklist.contains(&requester_ip.ip()).
is_blocked(ip) == ip \in blacklist

\* Mutex::lock() that does not wait for the holder.
lock_unchecked == TRUE

\* Mutex::lock() on the histogram map returns only when no one holds it.
lock_available == histLock = 0

\* proxy() returns: its locals are dropped.
DropLocals(t) ==
    /\ req' = [req EXCEPT ![t] = NoRequest]
    /\ timestamp' = [timestamp EXCEPT ![t] = 0]
    /\ outbound' = [outbound EXCEPT ![t] = NoOutbound]
    /\ resp' = [resp EXCEPT ![t] = 0]
    /\ duration' = [duration EXCEPT ![t] = 0]

\* A request arrives on a connection: timestamp, the blacklist check, and
\* either the 403 or the outbound request sent upstream. Tasks are numbered
\* in the order in which their requests arrive.
ProxyStart(t) ==
    /\ pc[t] = "idle"
    /\ \A u \in Tasks : u < t => pc[u] # "idle"
    /\ \E r \in Requests, peer \in Peers :
        /\ requester_ip' = [requester_ip EXCEPT ![t] = peer]
        /\ clock' = clock + 1
        /\ IF is_blocked(socket_ip(peer))
           THEN /\ result' = [result EXCEPT ![t] = Forbidden]
                /\ pc' = [pc EXCEPT ![t] = "done"]
                /\ UNCHANGED <<req, timestamp, outbound, sends>>
           ELSE /\ req' = [req EXCEPT ![t] = r]
                /\ timestamp' = [timestamp EXCEPT ![t] = clock]
                /\ outbound' = [outbound EXCEPT ![t] = proxied_req(r)]
                /\ sends' = [sends EXCEPT ![t] = @ + 1]
                /\ pc' = [pc EXCEPT ![t] = "await"]
                /\ result' = result
    /\ UNCHANGED <<storeVars, blacklist, resp, duration, reporterVars,
                   historyVars, histVars,
                   timerVars, renderVars>>

\* A failed send that is tried once more instead of returned.
UpstreamErrorRetry(t) ==
    /\ pc[t] = "await"
    /\ sends[t] < 2
    /\ sends' = [sends EXCEPT ![t] = @ + 1]
    /\ UNCHANGED <<storeVars, blacklist, clock, pc, requester_ip, req,
                   timestamp, outbound, resp, duration, result, reporterVars,
                   historyVars, histVars,
                   timerVars, renderVars>>

\* client.request(..).await? fails: the error is returned to the caller.
UpstreamError(t) ==
    /\ pc[t] = "await"
    /\ result' = [result EXCEPT ![t] = TransportError]
    /\ pc' = [pc EXCEPT ![t] = "done"]
    /\ DropLocals(t)
    /\ UNCHANGED <<storeVars, blacklist, clock, requester_ip, sends,
                   reporterVars, historyVars, histVars,
                   timerVars, renderVars>>

\* client.request(..).await? yields a response; the timer is read.
UpstreamResponse(t) ==
    /\ pc[t] = "await"
    /\ \E x \in Exchanges :
        /\ resp' = [resp EXCEPT ![t] = x.status]
        /\ duration' = [duration EXCEPT ![t] = x.elapsed]
    /\ pc' = [pc EXCEPT ![t] = "log"]
    /\ completion' = Append(completion, timestamp[t])
    /\ UNCHANGED <<storeVars, blacklist, clock, requester_ip, req, timestamp,
                   outbound, sends, result, reporterVars, applied,
                   snapApplied, recorded, reported, quiet, dirty, histVars,
                   timerVars, renderVars>>

\* Mutex::lock() on the log returns only when no one holds it.
log_lock_available == logLock = 0

\* loglist.lock(): the task takes the log mutex.
LockLog(t) ==
    /\ pc[t] = "log"
    /\ log_lock_available
    /\ logLock' = t
    /\ UNCHANGED <<histograms, loglist, histLock, blacklist, clock, taskVars,
                   reporterVars, historyVars, histVars,
                   timerVars, renderVars>>

\* The push that leaves the log mutex held until proxy() returns.
PushLogKeepGuard(t) ==
    /\ pc[t] = "log"
    /\ logLock = t
    /\ loglist' = Append(loglist, LogOf(t))
    /\ pc' = [pc EXCEPT ![t] = "lock"]
    /\ dirty' = TRUE
    /\ quiet' = FALSE
    /\ UNCHANGED <<histograms, histLock, logLock, blacklist, clock,
                   requester_ip, req, timestamp, outbound, sends, resp,
                   duration, result, reporterVars, applied, snapApplied,
                   recorded, reported, completion, histVars,
                   timerVars, renderVars>>

\* The push that puts the new entry in front of the others.
PushLogFront(t) ==
    /\ pc[t] = "log"
    /\ logLock = t
    /\ loglist' = << LogOf(t) >> \o loglist
    /\ logLock' = 0
    /\ pc' = [pc EXCEPT ![t] = "lock"]
    /\ dirty' = TRUE
    /\ quiet' = FALSE
    /\ UNCHANGED <<histograms, histLock, blacklist, clock, requester_ip, req,
                   timestamp, outbound, sends, resp, duration, result,
                   reporterVars, applied, snapApplied, recorded, reported,
                   completion, histVars, timerVars, renderVars>>

\* .unwrap().push(Log {..}); the guard is a temporary of the statement and
\* is dropped at its end.
PushLog(t) ==
    /\ pc[t] = "log"
    /\ logLock = t
    /\ loglist' = Append(loglist, LogOf(t))
    /\ logLock' = 0
    /\ pc' = [pc EXCEPT ![t] = "lock"]
    /\ dirty' = TRUE
    /\ quiet' = FALSE
    /\ UNCHANGED <<histograms, histLock, blacklist, clock, requester_ip, req,
                   timestamp, outbound, sends, resp, duration, result,
                   reporterVars, applied, snapApplied, recorded, reported,
                   completion, histVars,
                   timerVars, renderVars>>

\* let mut histograms = histograms.lock().unwrap();
\* histograms.entry("Overall").or_default().add(duration, timestamp).
RecordOverall(t) ==
    /\ pc[t] = "lock"
    /\ lock_available
    /\ histLock' = t
    /\ histograms' = record_entry(histograms, "Overall", duration[t],
                                  timestamp[t])
    /\ pc' = [pc EXCEPT ![t] = "path"]
    /\ dirty' = TRUE
    /\ quiet' = FALSE
    /\ UNCHANGED <<loglist, logLock, blacklist, clock, requester_ip, req,
                   timestamp, outbound, sends, resp, duration, result,
                   reporterVars, applied, snapApplied, recorded, reported,
                   completion, histVars,
                   timerVars, renderVars>>

\* histograms.entry(path).or_default().add(duration, timestamp); Ok(resp);
\* the guard and the other locals are dropped on return.
RecordPath(t) ==
    /\ pc[t] = "path"
    /\ histograms' = record_entry(histograms, uri_path(req[t].uri),
                                  duration[t], timestamp[t])
    /\ histLock' = 0
    /\ result' = [result EXCEPT ![t] = Upstream(resp[t])]
    /\ pc' = [pc EXCEPT ![t] = "done"]
    /\ DropLocals(t)
    /\ applied' = applied \cup {[task |-> t, path |-> req[t].uri.path,
                                 elapsed |-> duration[t],
                                 timestamp |-> timestamp[t]]}
    /\ recorded' = recorded + 1
    /\ dirty' = TRUE
    /\ quiet' = FALSE
    /\ UNCHANGED <<loglist, logLock, blacklist, clock, requester_ip, sends,
                   reporterVars, snapApplied, reported, completion, histVars,
                   timerVars, renderVars>>

\* ------------------------------------------------------------- reporter

\* interval.tick().await; let histograms = lock().unwrap().clone();
\* print_histograms(&histograms).
Snapshot ==
    /\ rpc = "sleep"
    /\ lock_available
    /\ snapshot' = clone(histograms)
    /\ \E iter \in IterOrders(snapshot') :
        report' = print_histograms(snapshot', iter)
    /\ reported' = reported + OverallTotal(report')
    /\ snapApplied' = applied
    /\ dirty' = FALSE
    /\ rpc' = "clear"
    /\ UNCHANGED <<storeVars, blacklist, clock, taskVars, applied, recorded,
                   quiet, completion, histVars,
                   timerVars, renderVars>>

\* The tick that drops the report and leaves the map as it is.
KeepHistograms ==
    /\ rpc = "clear"
    /\ lock_available
    /\ report' = << >>
    /\ rpc' = "clearlog"
    /\ UNCHANGED <<storeVars, blacklist, clock, taskVars, snapshot, applied,
                   snapApplied, recorded, reported, quiet, dirty, completion,
                   histVars, timerVars, renderVars>>

\* The String print_histograms returned is dropped;
\* histograms_for_timer.lock().unwrap().clear().
ClearHistograms ==
    /\ rpc = "clear"
    /\ lock_available
    /\ report' = << >>
    /\ histograms' = clear(histograms)
    /\ applied' = {}
    /\ rpc' = "clearlog"
    /\ UNCHANGED <<loglist, histLock, logLock, blacklist, clock, taskVars,
                   snapshot, snapApplied, recorded, reported, quiet, dirty,
                   completion, histVars,
                   timerVars, renderVars>>

\* loglist_for_timer.lock().unwrap().clear(); the loop body ends and the
\* local clone is dropped.
ClearLog ==
    /\ rpc = "clearlog"
    /\ log_lock_available
    /\ loglist' = << >>
    /\ completion' = SelectSeq(completion,
           LAMBDA ts : \A i \in DOMAIN loglist : loglist[i].timestamp # ts)
    /\ snapshot' = EmptyMap
    /\ snapApplied' = {}
    /\ quiet' = ~dirty
    /\ rpc' = "sleep"
    /\ UNCHANGED <<histograms, histLock, logLock, blacklist, clock, taskVars,
                   report, applied, recorded, reported, dirty, histVars,
                   timerVars, renderVars>>

\* ------------------------------------------------------------- system

Next ==
    \/ \E t \in Tasks : ProxyStart(t)
    \/ \E t \in Tasks : UpstreamError(t)
    \/ \E t \in Tasks : UpstreamResponse(t)
    \/ \E t \in Tasks : LockLog(t)
    \/ \E t \in Tasks : PushLog(t)
    \/ \E t \in Tasks : RecordOverall(t)
    \/ \E t \in Tasks : RecordPath(t)
    \/ Snapshot
    \/ ClearHistograms
    \/ ClearLog

Spec == Init /\ [][Next]_vars

\* ------------------------------------- stand-alone Histogram specification

\* One call of Histogram::add on a histogram of its own.
AddStep ==
    /\ nAdds < MaxAdds
    /\ \E d \in AddDurations, ts \in AddTimes :
        /\ hist' = add(hist, d, ts)
        /\ lastAdd' = [duration |-> d, timestamp |-> ts]
    /\ prevHist' = hist
    /\ nAdds' = nAdds + 1
    /\ UNCHANGED <<storeVars, blacklist, clock, taskVars, reporterVars,
                   historyVars, timerVars, renderVars>>

HistNext == AddStep

HistSpec == Init /\ [][HistNext]_vars

\* ------------------------------------------------------------- claims

\* The endpoint keys served requests can produce.
PathKeys == { r.uri.path : r \in Requests }

\* total_requests stored under key k, 0 when the key is absent.
TotalOf(m, k) == IF k \in DOMAIN m THEN m[k].total_requests ELSE 0

RECURSIVE SumTotals(_, _)
\* Sum of total_requests over the keys of m in keys.
SumTotals(m, keys) ==
    IF keys = {} THEN 0
    ELSE LET k == CHOOSE x \in keys : TRUE
         IN  m[k].total_requests + SumTotals(m, keys \ {k})

\* The aggregate entry of m agrees with the endpoint entries.
OverallIsSum(m) == TotalOf(m, "Overall") = SumTotals(m, DOMAIN m \ {"Overall"})

\* The observations of S made on endpoint key k.
ObservationsOn(S, k) == { o \in S : o.path = k }

\* The reporter holds a snapshot (it is between its copy and the end of the
\* tick).
HoldsSnapshot == rpc \in {"clear", "clearlog"}

\* C1: whenever the reporter is between ticks and the histogram lock is free,
\* the Overall totals of all emitted reports plus the Overall total of the live
\* map equal the number of observations recorded so far (none is lost).
C1_NoObservationLost ==
    (rpc = "sleep" /\ histLock = 0)
        => reported + TotalOf(histograms, "Overall") = recorded

\* C2: in every snapshot the reporter takes, and in the live map whenever no
\* task holds the histogram lock, the Overall total equals the sum of the
\* totals of all other keys.
C2_OverallIsSumOfEndpoints ==
    /\ histLock = 0 => OverallIsSum(histograms)
    /\ HoldsSnapshot => OverallIsSum(snapshot)

\* C2 witness: a non-empty snapshot was taken and, while the reporter still
\* holds it, a task stands between its Overall update and its endpoint update.
C2_Witness ==
    /\ rpc = "clear"
    /\ DOMAIN snapshot # {}
    /\ \E t \in Tasks : pc[t] = "path"

\* C3: every observation applied to the map after the previous clear and
\* before the reporter's copy is in the snapshot of that tick, under Overall
\* and under its path, and in the rows of the report printed for the tick.
C3_SnapshotHoldsApplied ==
    HoldsSnapshot =>
        /\ TotalOf(snapshot, "Overall") = Cardinality(snapApplied)
        /\ \A k \in PathKeys :
            TotalOf(snapshot, k) = Cardinality(ObservationsOn(snapApplied, k))
        /\ rpc = "clear" =>
            /\ OverallTotal(report) = Cardinality(snapApplied)
            /\ \A k \in PathKeys :
                ObservationsOn(snapApplied, k) # {} =>
                    \E i \in DOMAIN report :
                        /\ report[i].endpoint = k
                        /\ report[i].total_requests =
                             ToString(Cardinality(ObservationsOn(snapApplied, k)))

\* C3 witness: the snapshot was taken after observations on both endpoints.
C3_Witness ==
    /\ rpc = "clear"
    /\ \A k \in PathKeys : ObservationsOn(snapApplied, k) # {}

\* C4: with the lock free, the live map counts every recording completed
\* since the map was last empty: Overall holds their number and each path
\* key the number of them on that path; a report printed from a snapshot
\* taken then shows that number in its Overall row.
C4_NoLostUpdate ==
    /\ histLock = 0 =>
        /\ TotalOf(histograms, "Overall") = Cardinality(applied)
        /\ \A k \in PathKeys :
            TotalOf(histograms, k) = Cardinality(ObservationsOn(applied, k))
        /\ DOMAIN histograms \subseteq PathKeys \cup {"Overall"}
    /\ (rpc = "clear" /\ snapApplied = applied /\ histLock = 0) =>
        OverallTotal(report) = TotalOf(histograms, "Overall")

\* C4 witness: two recordings on the same path completed with no clear in
\* between and a snapshot was taken right after them.
C4_Witness ==
    /\ histLock = 0
    /\ rpc = "clear"
    /\ snapApplied = applied
    /\ \E k \in PathKeys : Cardinality(ObservationsOn(applied, k)) >= 2

\* C5: once a tick has completed and nothing was recorded during or after it,
\* the map and the log are empty, and so is the snapshot of the next tick.
C5_EmptyAfterQuietTick ==
    quiet =>
        /\ histograms = EmptyMap
        /\ loglist = << >>
        /\ HoldsSnapshot => snapshot = EmptyMap

\* C5 witness: observations were recorded and cleared by a tick, nothing was
\* recorded since, and the next tick has taken its snapshot.
C5_Witness ==
    /\ quiet
    /\ recorded >= 1
    /\ rpc = "clear"

\* C6: a request from a blacklisted address is answered 403 in the step that
\* accepts it, sends nothing upstream and leaves the log and every histogram
\* unchanged; no step changes the blacklist.
C6_BlockedRequest ==
    [][ /\ blacklist' = blacklist
        /\ \A t \in Tasks :
            /\ (pc[t] = "idle" /\ pc'[t] # "idle"
                    /\ requester_ip'[t].ip \in blacklist) =>
                /\ result'[t].kind = "Ok"
                /\ result'[t].status = 403
                /\ pc'[t] = "done"
                /\ sends' = sends
                /\ loglist' = loglist
                /\ histograms' = histograms
            /\ requester_ip'[t].ip \in blacklist' => sends'[t] = 0 ]_vars

\* C6 witness: a blacklisted peer got its 403 while another request's
\* observation is in the log and in the map.
C6_Witness ==
    /\ \E t \in Tasks :
        /\ requester_ip[t].ip \in blacklist
        /\ pc[t] = "done"
        /\ result[t].status = 403
        /\ sends[t] = 0
    /\ loglist # << >>
    /\ "Overall" \in DOMAIN histograms

\* C7: a failed upstream send ends the request with an error, appends no log
\* entry and changes no histogram; no request is sent upstream more than once.
C7_TransportFailure ==
    [][ \A t \in Tasks :
            /\ sends'[t] <= 1
            /\ (pc[t] = "await" /\ pc'[t] = "done") =>
                /\ result'[t].kind = "Err"
                /\ sends' = sends
                /\ loglist' = loglist
                /\ histograms' = histograms ]_vars

\* C7 witness: a request failed upstream after its single send, next to a
\* recorded one.
C7_Witness ==
    /\ \E t \in Tasks :
        /\ pc[t] = "done"
        /\ result[t].kind = "Err"
        /\ sends[t] = 1
    /\ loglist # << >>

\* The bucket named after the range that holds ms whole milliseconds.
RangeBucket(ms) ==
    CASE ms <= 10 -> "count_0_10"
      [] ms > 10 /\ ms <= 100 -> "count_11_100"
      [] ms > 100 /\ ms <= 250 -> "count_101_250"
      [] ms > 250 /\ ms <= 500 -> "count_251_500"
      [] ms > 500 /\ ms <= 1000 -> "count_501_1000"
      [] OTHER -> "count_1000_plus"

\* m2 is m with one more request counted under key k, in bucket b and in the
\* total, the entry being created if absent and no other key touched.
CountedOnce(m, m2, k, b) ==
    LET old == IF k \in DOMAIN m THEN m[k] ELSE HistogramDefault
    IN  /\ DOMAIN m2 = DOMAIN m \cup {k}
        /\ m2[k].total_requests = old.total_requests + 1
        /\ \A c \in BucketNames :
            m2[k][c] = old[c] + (IF c = b THEN 1 ELSE 0)
        /\ \A j \in DOMAIN m2 \ {k} : m2[j] = m[j]

\* The string form of an inbound URI.
OriginalUri(u) ==
    IF u.query = << >> THEN u.path ELSE u.path \o "?" \o u.query[1]

\* C8: a request that got an upstream response (of any status) appends one
\* log entry with its start timestamp, method, original URI, source IP and
\* elapsed microseconds, then counts itself once, in the same bucket, under
\* Overall and under its path (15 ms: count_11_100), touching no other key,
\* and returns the upstream response.
C8_RecordsOneObservation ==
    [][ \A t \in Tasks :
            /\ (pc[t] = "await" /\ pc'[t] \notin {"await", "done"}) =>
                /\ pc'[t] = "log"
                /\ loglist' = loglist
                /\ histograms' = histograms
            /\ (pc[t] = "log" /\ pc'[t] # "log") =>
                /\ pc'[t] = "lock"
                /\ loglist' = Append(loglist,
                       [timestamp |-> timestamp[t],
                        req_method |-> req[t].method,
                        req_uri |-> OriginalUri(req[t].uri),
                        requester_ip |-> requester_ip[t].ip,
                        micros |-> duration[t] \div 1000])
                /\ histograms' = histograms
            /\ (pc[t] = "lock" /\ pc'[t] # "lock") =>
                /\ pc'[t] = "path"
                /\ CountedOnce(histograms, histograms', "Overall",
                               RangeBucket(duration[t] \div 1000000))
                /\ duration[t] = 15000000 =>
                    histograms'["Overall"].count_11_100
                        = 1 + (IF "Overall" \in DOMAIN histograms
                               THEN histograms["Overall"].count_11_100 ELSE 0)
                /\ loglist' = loglist
            /\ (pc[t] = "path" /\ pc'[t] # "path") =>
                /\ pc'[t] = "done"
                /\ CountedOnce(histograms, histograms', req[t].uri.path,
                               RangeBucket(duration[t] \div 1000000))
                /\ duration[t] = 15000000 =>
                    histograms'[req[t].uri.path].count_11_100
                        = 1 + (IF req[t].uri.path \in DOMAIN histograms
                               THEN histograms[req[t].uri.path].count_11_100
                               ELSE 0)
                /\ loglist' = loglist
                /\ result'[t] = [kind |-> "Ok", status |-> resp[t],
                                 body |-> "upstream"]
            /\ (pc[t] = "done" /\ result[t].status # 403) =>
                (pc'[t] = "done" /\ result'[t] = result[t]) ]_vars

\* C8 witness: GET /foo?x=1 took 15 ms and got a 200; its observation is in
\* the log, under Overall and under /foo, and the 200 was returned.
C8_Witness ==
    /\ histLock = 0
    /\ "/foo" \in DOMAIN histograms
    /\ histograms["/foo"].count_11_100 = 1
    /\ histograms["Overall"].count_11_100 = 1
    /\ \E i \in DOMAIN loglist :
        /\ loglist[i].req_uri = "/foo?x=1"
        /\ loglist[i].req_method = "GET"
        /\ loglist[i].micros = 15000
    /\ \E t \in Tasks : pc[t] = "done" /\ result[t].status = 200

\* The buckets in which h2 differs from h.
ChangedBuckets(h, h2) == { c \in BucketNames : h2[c] # h[c] }

\* C9: after any sequence of add calls the six bucket counts sum to
\* total_requests, and the last add raised one bucket and the total by 1 and
\* left the other five buckets as they were.
C9_BucketsSumToTotal ==
    /\ hist.count_0_10 + hist.count_11_100 + hist.count_101_250
         + hist.count_251_500 + hist.count_501_1000 + hist.count_1000_plus
       = hist.total_requests
    /\ hist.total_requests = nAdds
    /\ nAdds > 0 =>
        /\ hist.total_requests = prevHist.total_requests + 1
        /\ \E b \in BucketNames :
            /\ hist[b] = prevHist[b] + 1
            /\ ChangedBuckets(prevHist, hist) = {b}

\* C9 witness: several adds were made, two of them into the same bucket.
C9_Witness ==
    /\ nAdds = MaxAdds
    /\ \E b \in BucketNames : hist[b] >= 2
    /\ \E b \in BucketNames : hist[b] = 1

\* The last add counted its request in bucket b.
LastAddCountedIn(b) == hist[b] = prevHist[b] + 1

\* C10: a duration of exactly 10, 100, 250, 500 or 1000 ms is counted in the
\* bucket it closes (0-10, 11-100, 101-250, 251-500, 501-1000), 0 ms in 0-10,
\* and 1001 ms or more in the unbounded top bucket.
C10_UpperBoundsInclusive ==
    nAdds > 0 =>
        /\ lastAdd.duration = 0 => LastAddCountedIn("count_0_10")
        /\ lastAdd.duration = 10 * 1000000 => LastAddCountedIn("count_0_10")
        /\ lastAdd.duration = 100 * 1000000 => LastAddCountedIn("count_11_100")
        /\ lastAdd.duration = 250 * 1000000 => LastAddCountedIn("count_101_250")
        /\ lastAdd.duration = 500 * 1000000 => LastAddCountedIn("count_251_500")
        /\ lastAdd.duration = 1000 * 1000000
            => LastAddCountedIn("count_501_1000")
        /\ lastAdd.duration >= 1001 * 1000000
            => LastAddCountedIn("count_1000_plus")

\* C10 witness: an add of exactly 1000 ms after adds of exactly 10 ms and of
\* 1001 ms.
C10_Witness ==
    /\ nAdds = 3
    /\ lastAdd.duration = 1000 * 1000000
    /\ hist.count_0_10 = 1
    /\ hist.count_1000_plus = 1
    /\ hist.count_501_1000 = 1

\* C11: last_request_time is absent until the first add and afterwards is the
\* timestamp passed to the most recent add, whatever the bucket and also when
\* that timestamp is earlier than the stored one.
C11_LastWriteWins ==
    /\ nAdds = 0 => hist.last_request_time = << >>
    /\ nAdds > 0 => hist.last_request_time = << lastAdd.timestamp >>

\* C11 witness: the last add carried a timestamp earlier than the stored one
\* and hit another bucket than the add before it.
C11_Witness ==
    /\ nAdds >= 2
    /\ prevHist.last_request_time = << 2 >>
    /\ lastAdd.timestamp = 1
    /\ hist.count_0_10 = 1
    /\ hist.count_1000_plus = 1
    /\ Bucket(as_millis(lastAdd.duration)) = "count_1000_plus"

\* ------------------------------------------------------------- C12

\* The place of a timestamp in a sequence of distinct timestamps.
PlaceIn(seq, ts) == CHOOSE k \in DOMAIN seq : seq[k] = ts

\* C12: for any two logged requests, the one whose upstream response was
\* received first (its timer stopped first) is the earlier one in the log.
C12_LogInCompletionOrder ==
    \A i, j \in DOMAIN loglist :
        i < j => PlaceIn(completion, loglist[i].timestamp)
                     < PlaceIn(completion, loglist[j].timestamp)

\* ------------------------------------------- reporter timing specification

\* args.interval, in seconds.
Interval == 2

\* The instant at which the clock of the timing specification stops.
MaxTime == 7

\* The positions of the reporter inside the body of its loop.
TickBody == {"snapshot", "clear", "clearlog"}

\* A second passes, wherever the reporter stands.
Advance ==
    /\ now < MaxTime
    /\ now' = now + 1
    /\ UNCHANGED <<storeVars, blacklist, clock, taskVars, reporterVars,
                   historyVars, histVars, tpc, deadline, created, ticks,
                   tickAt, prevTickAt, clears, renderVars>>

\* The reporter that creates its interval timer without sleeping first.
NoInitialSleep ==
    /\ tpc = "sleep"
    /\ created' = now
    /\ deadline' = now
    /\ tpc' = "tick"
    /\ UNCHANGED <<storeVars, blacklist, clock, taskVars, reporterVars,
                   historyVars, histVars, now, ticks, tickAt, prevTickAt,
                   clears, renderVars>>

\* time::sleep(interval).await returns, at its deadline or later;
\* time::interval(interval) is created with its first tick due at once.
SleepElapsed ==
    /\ tpc = "sleep"
    /\ now >= Interval
    /\ created' = now
    /\ deadline' = now
    /\ tpc' = "tick"
    /\ UNCHANGED <<storeVars, blacklist, clock, taskVars, reporterVars,
                   historyVars, histVars, now, ticks, tickAt, prevTickAt,
                   clears, renderVars>>

\* interval.tick().await returns, at the scheduled instant or later; the next
\* tick is scheduled one period after that instant (MissedTickBehavior::Burst).
TickElapsed ==
    /\ tpc = "tick"
    /\ now >= deadline
    /\ deadline' = deadline + Interval
    /\ ticks' = ticks + 1
    /\ prevTickAt' = tickAt
    /\ tickAt' = now
    /\ tpc' = "snapshot"
    /\ UNCHANGED <<storeVars, blacklist, clock, taskVars, reporterVars,
                   historyVars, histVars, now, created, clears, renderVars>>

\* let histograms = lock().unwrap().clone(); print_histograms(&histograms).
TimedSnapshot ==
    /\ tpc = "snapshot"
    /\ lock_available
    /\ snapshot' = clone(histograms)
    /\ \E iter \in IterOrders(snapshot') :
        report' = print_histograms(snapshot', iter)
    /\ tpc' = "clear"
    /\ UNCHANGED <<storeVars, blacklist, clock, taskVars, rpc, historyVars,
                   histVars, now, deadline, created, ticks, tickAt,
                   prevTickAt, clears, renderVars>>

\* histograms_for_timer.lock().unwrap().clear().
TimedClearHistograms ==
    /\ tpc = "clear"
    /\ lock_available
    /\ histograms' = clear(histograms)
    /\ report' = << >>
    /\ tpc' = "clearlog"
    /\ UNCHANGED <<loglist, histLock, logLock, blacklist, clock, taskVars,
                   rpc, snapshot, historyVars, histVars, now, deadline,
                   created, ticks, tickAt, prevTickAt, clears, renderVars>>

\* loglist_for_timer.lock().unwrap().clear(); back to interval.tick().await.
TimedClearLog ==
    /\ tpc = "clearlog"
    /\ log_lock_available
    /\ loglist' = << >>
    /\ snapshot' = EmptyMap
    /\ clears' = clears + 1
    /\ tpc' = "tick"
    /\ UNCHANGED <<histograms, histLock, logLock, blacklist, clock, taskVars,
                   rpc, report, historyVars, histVars, now, deadline,
                   created, ticks, tickAt, prevTickAt, renderVars>>

TimerNext ==
    \/ Advance
    \/ SleepElapsed
    \/ TickElapsed
    \/ TimedSnapshot
    \/ TimedClearHistograms
    \/ TimedClearLog

TimerSpec == Init /\ [][TimerNext]_vars

\* C13 as stated: nothing is reported or cleared before one interval has
\* passed; the first tick fires exactly one interval after startup and each
\* later tick exactly one interval after the tick before it; the steps of a
\* tick are done before the next tick fires.
C13_ExactlyOneInterval ==
    /\ tpc \in TickBody => now >= Interval
    /\ ticks = 1 => tickAt = Interval
    /\ ticks >= 2 => tickAt = prevTickAt + Interval
    /\ tpc = "tick" => clears = ticks
    /\ tpc \in TickBody => clears = ticks - 1

\* C13, amended: nothing is reported or cleared before one interval has
\* passed; the first tick fires one interval after startup or later, the
\* schedule of the later ticks is fixed when the interval timer is created
\* (one interval apart) and no tick fires before its scheduled instant; the
\* steps of a tick are done before the next tick fires.
C13_NoTickBeforeSchedule ==
    /\ tpc \in TickBody => now >= Interval
    /\ ticks = 0 => tpc \in {"sleep", "tick"}
    /\ tpc # "sleep" =>
        /\ created >= Interval
        /\ deadline = created + ticks * Interval
    /\ ticks >= 1 =>
        /\ tickAt >= created + (ticks - 1) * Interval
        /\ tickAt <= now
    /\ ticks >= 2 => prevTickAt <= tickAt
    /\ tpc = "tick" => clears = ticks
    /\ tpc \in TickBody => clears = ticks - 1

\* C13 witness: a tick fired late and the next one, fired on schedule, came
\* less than one interval after it; the reporter is in the body of that tick.
C13_Witness ==
    /\ ticks >= 2
    /\ prevTickAt > created
    /\ tickAt < prevTickAt + Interval
    /\ tpc = "clear"

\* ------------------------------------------------ renderer specification

\* The keys of the maps handed to the renderer.
RenderKeys == {"Overall", "/foo", "/bar"}

\* The histograms stored in them: untouched, and after one, two and three
\* adds.
RenderHists ==
    LET one == add(HistogramDefault, 5 * 1000000, 1)
        two == add(one, 1500 * 1000000, 2)
    IN  {HistogramDefault, one, two, add(two, 100 * 1000000, 1)}

\* Every map over some of the keys.
RenderMaps == UNION { [K -> RenderHists] : K \in SUBSET RenderKeys }

\* One call of print_histograms.
Render ==
    /\ \E m \in RenderMaps :
        /\ renderMap' = m
        /\ \E iter \in IterOrders(m) : rendered' = print_histograms(m, iter)
    /\ renderCalled' = TRUE
    /\ UNCHANGED <<storeVars, blacklist, clock, taskVars, reporterVars,
                   historyVars, histVars, timerVars>>

RenderNext == Render

RenderSpec == Init /\ [][RenderNext]_vars

\* The rendered map is empty or holds only an Overall entry that is empty.
RenderedEmpty ==
    \/ DOMAIN renderMap = {}
    \/ /\ DOMAIN renderMap = {"Overall"}
       /\ renderMap["Overall"].total_requests = 0
       /\ renderMap["Overall"].last_request_time = << >>

\* C14: rendering an empty map, or a map holding only an empty Overall
\* entry, gives exactly one data row, labelled Overall, with the six bucket
\* counts and the total 0 and the last-request column N/A.
C14_EmptyRendersZeroRow ==
    (renderCalled /\ RenderedEmpty) =>
        /\ Len(rendered) = 1
        /\ rendered[1] = [endpoint |-> "Overall",
                          count_0_10 |-> "0",
                          count_11_100 |-> "0",
                          count_101_250 |-> "0",
                          count_251_500 |-> "0",
                          count_501_1000 |-> "0",
                          count_1000_plus |-> "0",
                          total_requests |-> "0",
                          last_request |-> "N/A"]

\* C14 witness: the renderer was called on the map that holds only an empty
\* Overall entry.
C14_Witness ==
    /\ renderCalled
    /\ DOMAIN renderMap = {"Overall"}
    /\ RenderedEmpty
    /\ Len(rendered) = 1

\* The row shows the label k and the counts, total and last-request time of
\* the histogram h.
RowShows(row, k, h) ==
    /\ row.endpoint = k
    /\ row.count_0_10 = ToString(h.count_0_10)
    /\ row.count_11_100 = ToString(h.count_11_100)
    /\ row.count_101_250 = ToString(h.count_101_250)
    /\ row.count_251_500 = ToString(h.count_251_500)
    /\ row.count_501_1000 = ToString(h.count_501_1000)
    /\ row.count_1000_plus = ToString(h.count_1000_plus)
    /\ row.total_requests = ToString(h.total_requests)
    /\ h.last_request_time = << >> => row.last_request = "N/A"
    /\ h.last_request_time # << >> => row.last_request # "N/A"

\* C16: the report of a non-empty map has exactly one row per key, the
\* Overall row first when the key is present, and every row shows what the
\* map stores under its key, also when Overall is the only key and its
\* counts are not zero.
C16_OneRowPerKey ==
    (renderCalled /\ DOMAIN renderMap # {}) =>
        /\ Len(rendered) = Cardinality(DOMAIN renderMap)
        /\ "Overall" \in DOMAIN renderMap => rendered[1].endpoint = "Overall"
        /\ \A k \in DOMAIN renderMap :
            \E i \in DOMAIN rendered :
                /\ RowShows(rendered[i], k, renderMap[k])
                /\ \A j \in DOMAIN rendered :
                    rendered[j].endpoint = k => j = i

\* ------------------------------------------------------------- C15

\* C15: the outbound request of every request that is not blacklisted goes
\* to the configured host and port (localhost:3000) with the method, the
\* path and query, the whole header set and the body of the inbound request,
\* and it is sent once.
C15_ForwardsUnchanged ==
    \A t \in Tasks :
        pc[t] = "await" =>
            /\ requester_ip[t].ip \notin blacklist
            /\ sends[t] = 1
            /\ outbound[t].method = req[t].method
            /\ outbound[t].uri = "http://localhost:3000" \o OriginalUri(req[t].uri)
            /\ outbound[t].headers = req[t].headers
            /\ outbound[t].body = req[t].body
            /\ req[t].uri.query = << "x=1" >> =>
                outbound[t].uri = "http://localhost:3000/foo?x=1"

\* C15 witness: a GET with a query string and a POST with a body and an
\* X-Forwarded-For header are both on their way upstream.
C15_Witness ==
    /\ \E t \in Tasks :
        /\ pc[t] = "await"
        /\ outbound[t].uri = "http://localhost:3000/foo?x=1"
        /\ outbound[t].method = "GET"
    /\ \E t \in Tasks :
        /\ pc[t] = "await"
        /\ outbound[t].uri = "http://localhost:3000/bar"
        /\ outbound[t].body = "payload"
        /\ <<"x-forwarded-for", "1.2.3.4">> \in outbound[t].headers
        /\ <<"host", "example.org">> \in outbound[t].headers

\* ------------------------------------------------------------- C17

\* Task t has appended its log entry and not yet finished its histogram
\* update.
BetweenLogAndHistogram(t) == pc[t] \in {"lock", "path"}

\* C17: whenever no request is between its log append and its histogram
\* update and the reporter is not in the middle of a tick, the log holds as
\* many entries as the Overall histogram counts requests.
C17_LogLengthIsOverallTotal ==
    (rpc = "sleep" /\ \A t \in Tasks : ~BetweenLogAndHistogram(t))
        => Len(loglist) = TotalOf(histograms, "Overall")

\* ------------------------------------------------------------- C18

\* The counters of a Histogram.
CounterNames == BucketNames \cup {"total_requests"}

\* The step is one of the reporter's two clears.
ReporterClears == rpc \in {"clear", "clearlog"} /\ rpc' # rpc

\* C18: the map and the log start empty, and every step that is not one of
\* the reporter's clears keeps every key, lowers no counter and leaves the
\* log as it is or with one entry appended at its end.
C18_OnlyClearShrinks ==
    /\ histograms = EmptyMap
    /\ loglist = << >>
    /\ [][ ~ReporterClears =>
            /\ DOMAIN histograms \subseteq DOMAIN histograms'
            /\ \A k \in DOMAIN histograms : \A c \in CounterNames :
                histograms'[k][c] >= histograms[k][c]
            /\ \/ loglist' = loglist
               \/ /\ Len(loglist') = Len(loglist) + 1
                  /\ SubSeq(loglist', 1, Len(loglist)) = loglist ]_vars

\* C18 witness: the reporter has cleared the map in this tick and not yet the
\* log; two requests have both logged and counted themselves since.
C18_Witness ==
    /\ rpc = "clearlog"
    /\ Len(loglist) = 2
    /\ TotalOf(histograms, "Overall") = 2
    /\ Cardinality(DOMAIN histograms) = 3

\* ------------------------------------------------------------- C19

\* The bucket whose range of milliseconds holds the exact duration ns,
\* given in nanoseconds.
ExactBucket(ns) ==
    CASE ns <= 10 * 1000000 -> "count_0_10"
      [] ns > 10 * 1000000 /\ ns <= 100 * 1000000 -> "count_11_100"
      [] ns > 100 * 1000000 /\ ns <= 250 * 1000000 -> "count_101_250"
      [] ns > 250 * 1000000 /\ ns <= 500 * 1000000 -> "count_251_500"
      [] ns > 500 * 1000000 /\ ns <= 1000 * 1000000 -> "count_501_1000"
      [] OTHER -> "count_1000_plus"

\* C19: the log entry of a request records its elapsed time in microseconds
\* and the bucket counted under Overall and under its path is the one whose
\* range holds that exact elapsed time: 1000500 microseconds are counted in
\* the bucket above 1000 ms.
C19_BucketByExactDuration ==
    [][ \A t \in Tasks :
            /\ (pc[t] = "log" /\ pc'[t] = "lock") =>
                loglist'[Len(loglist')].micros = duration[t] \div 1000
            /\ (pc[t] = "lock" /\ pc'[t] = "path") =>
                CountedOnce(histograms, histograms', "Overall",
                            ExactBucket(duration[t]))
            /\ (pc[t] = "path" /\ pc'[t] = "done") =>
                CountedOnce(histograms, histograms', req[t].uri.path,
                            ExactBucket(duration[t])) ]_vars

\* ------------------------------------------------------------- C20

\* The runtime polls every task that can run, and a thread waiting for a
\* mutex gets it once it stays free: the steps after the upstream response
\* and the steps of a started tick are taken if they stay possible. Arrivals
\* and upstream answers are the environment's and are not forced.
Fairness ==
    /\ \A t \in Tasks :
        /\ WF_vars(LockLog(t))
        /\ WF_vars(PushLog(t))
        /\ WF_vars(RecordOverall(t))
        /\ WF_vars(RecordPath(t))
    /\ WF_vars(ClearHistograms)
    /\ WF_vars(ClearLog)

FairSpec == Spec /\ Fairness

\* Task t is suspended: not yet started, awaiting the upstream, or returned.
Suspended(t) == pc[t] \in {"idle", "await", "done"}

\* No task holds both locks, no suspended task holds a lock, and whoever
\* holds a lock can take its next step.
LockDiscipline ==
    /\ \A t \in Tasks :
        /\ ~(logLock = t /\ histLock = t)
        /\ Suspended(t) => (logLock # t /\ histLock # t)
        /\ logLock = t => ENABLED PushLog(t)
        /\ histLock = t => ENABLED RecordPath(t)
    /\ logLock \in Tasks \cup {0}
    /\ histLock \in Tasks \cup {0}
    /\ (logLock = 0 /\ histLock = 0) =>
        /\ \A t \in Tasks : pc[t] = "log" => ENABLED LockLog(t)
        /\ \A t \in Tasks : pc[t] = "lock" => ENABLED RecordOverall(t)
        /\ rpc = "clear" => ENABLED ClearHistograms
        /\ rpc = "clearlog" => ENABLED ClearLog

\* C20: no task ever holds the log lock and the histogram lock together or
\* is suspended holding one, no lock holder is ever stuck, and under fair
\* scheduling every request that got its upstream response returns and every
\* tick the reporter started completes its clear.
C20_NoDeadlock ==
    /\ []LockDiscipline
    /\ \A t \in Tasks : (pc[t] = "log") ~> (pc[t] = "done")
    /\ (rpc # "sleep") ~> (rpc = "sleep")

\* C20 witness: one task holds the log lock, another the histogram lock, and
\* the reporter, in the middle of a tick, waits for the histogram lock.
C20_Witness ==
    /\ rpc = "clear"
    /\ \E t, u \in Tasks :
        /\ t # u
        /\ logLock = t
        /\ histLock = u

\* ------------------------------------------------------------- C21

\* C21: the Overall totals of all reports emitted so far never sum to more
\* than the number of observations recorded so far; once the tick has cleared
\* the map and the histogram lock is free, not even together with the Overall
\* total of the live map.
C21_NoDoubleCount ==
    /\ reported <= recorded
    /\ (rpc # "clear" /\ histLock = 0) =>
        reported + TotalOf(histograms, "Overall") <= recorded

\* C21 witness: two reports were emitted, each counting one of two recorded
\* observations; the reporter still holds the second one.
C21_Witness ==
    /\ rpc = "clear"
    /\ recorded = 2
    /\ reported = 2
    /\ OverallTotal(report) = 1

\* ------------------------------------------------------------- C22

\* The map m is empty, or holds Overall and at least one path key, and every
\* histogram in it has counted a request and notes the time of one.
WellFormedMap(m) ==
    /\ DOMAIN m # {} =>
        /\ "Overall" \in DOMAIN m
        /\ DOMAIN m \ {"Overall"} # {}
        /\ \A k \in DOMAIN m : k # "Overall" => k \in PathKeys
    /\ \A k \in DOMAIN m :
        /\ m[k].total_requests >= 1
        /\ m[k].last_request_time # << >>

\* C22: with the histogram lock free the map is empty or holds Overall next
\* to at least one path key, every stored histogram has total_requests >= 1
\* and a last_request_time, and Overall's last_request_time is that of the
\* path histogram updated most recently (set by the step that updates it and
\* kept until the map is cleared); the reporter's snapshot is such a map too,
\* never one whose only key is Overall.
C22_MapWellFormed ==
    /\ [](histLock = 0 => WellFormedMap(histograms))
    /\ [](HoldsSnapshot =>
            (WellFormedMap(snapshot) /\ DOMAIN snapshot # {"Overall"}))
    /\ [][ /\ \A t \in Tasks :
               (pc[t] = "path" /\ pc'[t] = "done") =>
                   /\ histLock' = 0
                   /\ histograms'["Overall"].last_request_time
                        = << timestamp[t] >>
                   /\ histograms'[req[t].uri.path].last_request_time
                        = histograms'["Overall"].last_request_time
           /\ (histLock = 0 /\ histLock' = 0) =>
               (histograms' = histograms \/ histograms' = EmptyMap) ]_vars

\* C22 witness: two requests were recorded on different paths, the one that
\* arrived first being recorded last: Overall notes its time, the earlier one.
C22_Witness ==
    /\ histLock = 0
    /\ DOMAIN histograms = {"Overall", "/foo", "/bar"}
    /\ histograms["Overall"].total_requests = 2
    /\ histograms["Overall"].last_request_time = << 1 >>
    /\ \E k \in PathKeys : histograms[k].last_request_time = << 2 >>

====
